---- MODULE Spec2Model ----
(***************************************************************************)
(* Model of GoGridLBDriver (libcloud/loadbalancer/drivers/gogrid.py).      *)
(*                                                                         *)
(* The driver is single-threaded and synchronous: one driver call runs at  *)
(* a time.  The vendor (the connection collaborator) is the environment:   *)
(* every response object, status and transport error is chosen             *)
(* nondeterministically from small sets.  Every request the driver issues  *)
(* is appended to `log`, so that the order and the parameters of requests  *)
(* can be stated.                                                          *)
(*                                                                         *)
(* Python values are modelled as follows:                                  *)
(*   None                       the string "None"                          *)
(*   dict (request params)      a function from keys to values; the key    *)
(*                              "realiplist.%s.ip" % i is the tuple        *)
(*                              <<"realiplist", i, "ip">>, every other key *)
(*                              a one-element tuple                        *)
(*   str(err)                   a sequence of text fragments; `x in s` is  *)
(*                              containment of the fragment x              *)
(*   exception                  [type |-> class name, msg |-> str(err)]    *)
(***************************************************************************)
EXTENDS Integers, Sequences, FiniteSets, TLC

\* ------------------------------------------------------------------ bounds
\* Longest member list the vendor returns or the caller passes.
MaxMembers == 2
\* Longest balancer list the vendor returns.
MaxBalancers == 2

\* ------------------------------------------------------------ value domains
None == "None"

SeqsUpTo(S, n) == UNION {[1..k -> S] : k \in 0..n}

Names == {"web", "db"}
BalancerIds == {"lb7"}
\* Identifiers of the balancers the caller passes to destroy, get, attach
\* and detach.
TargetIds == {"lb7", "lb9"}
MemberIds == {"m1", "m2"}
IPs == {"10.0.0.1", "10.0.0.2"}
Ports == {80}
Statuses == {200, 500}

\* A neutral Member (libcloud.loadbalancer.base.Member): id, ip, port.
\* A member the caller builds has no vendor id yet; one taken from an
\* earlier response has.
NewMembers == [id : {None}, ip : IPs, port : Ports]
Members == [id : MemberIds \cup {None}, ip : IPs, port : Ports]

\* Vendor JSON: an element of "realiplist" is {ip: {id, ip}, port}.
VendorMembers == [ip : [id : MemberIds, ip : IPs], port : Ports]
VendorMemberLists == SeqsUpTo(VendorMembers, MaxMembers)

\* Vendor JSON: an element of "list" of the list/add endpoints.  A missing
\* or null "id" is None.
VendorBalancers ==
    [id : BalancerIds \cup {None}, name : Names, state : [name : {"On", "Off"}],
     virtualip : [ip : [ip : {"1.2.3.4"}], port : Ports]]
BalancerObjects == {[list |-> l] : l \in SeqsUpTo(VendorBalancers, MaxBalancers)}

\* Vendor JSON of the get/edit endpoints: a list holding (at most) the one
\* balancer, of which only "realiplist" is read.
MemberObjects ==
    {[list |-> <<>>]} \cup {[list |-> <<[realiplist |-> r]>>] : r \in VendorMemberLists}

\* Texts of the errors the transport raises.
ErrTexts ==
    { <<"Update already pending">>,
      <<"GoGrid: ", "Update already pending", " (retry later)">>,
      <<"Update request for LoadBalancer">>,
      <<"Error: ", "Update request for LoadBalancer", " is in progress">>,
      <<"Connection refused">>,
      <<>> }
TransportErrors == [type : {"Exception"}, msg : ErrTexts]

\* `needle in str(err)`
Contains(text, needle) == \E i \in 1..Len(text) : text[i] = needle

\* ------------------------------------------------------------ class constants
\* LB_STATE_MAP
LB_STATE_MAP == [n \in {"On", "Unknown"} |->
                    IF n = "On" THEN "RUNNING" ELSE "UNKNOWN"]

\* _VALUE_TO_ALGORITHM_MAP
_VALUE_TO_ALGORITHM_MAP_dup ==
    [t \in {"round balancer", "least connection"} |-> "ROUND_ROBIN"]
_VALUE_TO_ALGORITHM_MAP ==
    [t \in {"round balancer", "least connection"} |->
        IF t = "round balancer" THEN "ROUND_ROBIN" ELSE "LEAST_CONNECTIONS"]

\* libcloud.utils.reverse_dict: dict([(value, key) for key, value in d.items()])
reverse_dict(d) ==
    [v \in {d[k] : k \in DOMAIN d} |-> CHOOSE k \in DOMAIN d : d[k] = v]

\* libcloud.loadbalancer.base.DEFAULT_ALGORITHM: a member of the neutral
\* Algorithm enum.
DEFAULT_ALGORITHM == "ROUND_ROBIN"

Algorithms == {"ROUND_ROBIN", "LEAST_CONNECTIONS"}

\* create_balancer: timeout = 60 * 20, interval = 2 * 15
timeout_late == 60 * 20 + 1
timeout == 60 * 20
interval == 2 * 15

\* ------------------------------------------------------------------ replies
\* What connection.request does: it raises, or returns a response with a
\* status and a parsed body.
NoError == [type |-> None, msg |-> <<>>]
Raised(e) == [kind |-> "raise", err |-> e, status |-> 0, object |-> [list |-> <<>>]]
Response(s, o) == [kind |-> "resp", err |-> NoError, status |-> s, object |-> o]
NoReply == [kind |-> "none", err |-> NoError, status |-> 0, object |-> [list |-> <<>>]]
Replies(Errors, Codes, Objects) ==
    {Raised(e) : e \in Errors} \cup {Response(s, o) : s \in Codes, o \in Objects}
\* Replies to the list, add and get-by-name requests.
BalancerReplies == Replies(TransportErrors, Statuses, BalancerObjects)
ConnectionRefused == [type |-> "Exception", msg |-> <<"Connection refused">>]
\* Replies to the requests of create_balancer and to the add request.
PollReplies == Replies({ConnectionRefused}, {200}, BalancerObjects)
\* Replies to the get-by-id request.
GetReplies == Replies({ConnectionRefused}, {200}, MemberObjects)
\* Replies to the edit request of an attach, which reads the body, and of a
\* detach, which reads the status.
AttachReplies == Replies(TransportErrors, {200}, MemberObjects)
DetachReplies == Replies(TransportErrors, Statuses, {[list |-> <<>>]})
\* Replies to the delete request.
DeleteReplies == Replies(TransportErrors, Statuses, {[list |-> <<>>]})

\* A request as the driver hands it to connection.request; a method or
\* params the call does not pass is None.
Request(path, method, params) == [path |-> path, method |-> method, params |-> params]

\* How a driver call ends.
Return(v) == [kind |-> "return", value |-> v]
Raise(e) == [kind |-> "raise", value |-> e]
Running == [kind |-> "none", value |-> None]

Error(type, msg) == [type |-> type, msg |-> msg]
\* What indexing [0] raises on an empty list.
IndexError == Error("IndexError", <<"list index out of range">>)

\* ------------------------------------------------------------------ parsing
_to_member(el) == [id |-> el.ip.id, ip |-> el.ip.ip, port |-> el.port]

_to_members(object) == [i \in 1..Len(object) |-> _to_member(object[i])]

\* The back-reference `driver` is the one driver and is left out.
_to_balancer(el) ==
    [id |-> el.id,
     name |-> el.name,
     state |-> IF el.state.name \in DOMAIN LB_STATE_MAP
               THEN LB_STATE_MAP[el.state.name] ELSE "UNKNOWN",
     ip |-> el.virtualip.ip.ip,
     port |-> el.virtualip.port]

_to_balancers(object) == [i \in 1..Len(object.list) |-> _to_balancer(object.list[i])]

\* ------------------------------------------------------------------- params
\* dict.update
Update(params, more) ==
    [k \in DOMAIN params \cup DOMAIN more |->
        IF k \in DOMAIN more THEN more[k] ELSE params[k]]

\* {key: value}
Entry(key, value) == [k \in {<<key>>} |-> value]

_members_to_params(members) ==
    [k \in {<<"realiplist", i, f>> : i \in 0..(Len(members) - 1), f \in {"ip", "port"}} |->
        IF k[3] = "ip" THEN members[k[2] + 1].ip ELSE members[k[2] + 1].port]

\* ------------------------------------------------------------------- state
VARIABLES
    pc,          \* "idle", "polling" (inside create_balancer's loop) or "done"
    op,          \* the driver method being called
    args,        \* its arguments
    log,         \* the requests issued by the call, in order
    reply,       \* what the last request of the call came back with, once the
                 \* call has ended
    outcome,     \* how the call ended: a returned value or a raised error
    balancer,    \* create_balancer: the balancer parsed from the add response
    waittime,    \* create_balancer: waittime
    nlist,       \* create_balancer: list_balancers calls made so far
    nsleep,      \* create_balancer: time.sleep calls made so far
    passed,      \* create_balancer: a listing that held a named entry with an
                 \* id went by without the call returning
    got,         \* attach/detach: what the get request came back with
    value_to_algorithm,   \* the class attribute _VALUE_TO_ALGORITHM_MAP
    algorithm_to_value    \* the class attribute _ALGORITHM_TO_VALUE_MAP

vars == <<pc, op, args, log, reply, outcome, balancer, waittime,
          nlist, nsleep, passed, got, value_to_algorithm, algorithm_to_value>>

tables == <<value_to_algorithm, algorithm_to_value>>
call == <<balancer, waittime, nlist, nsleep, passed>>

NoBalancer == [id |-> None, name |-> None, state |-> "UNKNOWN", ip |-> None, port |-> 0]

\* The class body: the reverse table is built once from the forward table.
_ALGORITHM_TO_VALUE_MAP == reverse_dict(_VALUE_TO_ALGORITHM_MAP)

Init ==
    /\ pc = "idle"
    /\ op = "none"
    /\ args = <<>>
    /\ log = <<>>
    /\ reply = NoReply
    /\ outcome = Running
    /\ balancer = NoBalancer
    /\ waittime = 0
    /\ nlist = 0
    /\ nsleep = 0
    /\ passed = FALSE
    /\ got = NoReply
    /\ value_to_algorithm = _VALUE_TO_ALGORITHM_MAP
    /\ algorithm_to_value = _ALGORITHM_TO_VALUE_MAP

\* A call that issues its requests and ends within one step.
Finish(name, a, requests, r, result) ==
    /\ pc' = "done"
    /\ op' = name
    /\ args' = a
    /\ log' = requests
    /\ reply' = r
    /\ outcome' = result

\* ----------------------------------------------------------- list_balancers
ListRequest == Request("/api/grid/loadbalancer/list", None, None)

\* The value of list_balancers() when the request came back with r.
list_balancers(r) ==
    IF r.kind = "raise" THEN Raise(r.err) ELSE Return(_to_balancers(r.object))

ListBalancers ==
    /\ pc = "idle"
    /\ \E r \in BalancerReplies :
          Finish("list_balancers", <<>>, <<ListRequest>>, r, list_balancers(r))
    /\ UNCHANGED <<call, got, tables>>

\* ------------------------------------------------ ex_create_balancer_nowait
\* libcloud.loadbalancer.base.Driver._algorithm_to_value: the lookup in the
\* driver's _ALGORITHM_TO_VALUE_MAP.
_algorithm_to_value(algorithm) == algorithm_to_value[algorithm]

\* BaseGoGridDriver._get_first_ip: the first available public IP.
_get_first_ip == "1.2.3.4"

\* `if not algorithm: ... else: ...`
NowaitAlgorithm(algorithm) ==
    IF algorithm = None THEN DEFAULT_ALGORITHM ELSE _algorithm_to_value(algorithm)

AddRequest(a) ==
    Request("/api/grid/loadbalancer/add", "GET",
            Update(Update(Update(Update(Entry("name", a.name),
                                        Entry("loadbalancer.type", NowaitAlgorithm(a.algorithm))),
                                 Entry("virtualip.ip", _get_first_ip)),
                          Entry("virtualip.port", a.port)),
                   _members_to_params(a.members)))

\* The value of ex_create_balancer_nowait when the add request came back
\* with r: `self._to_balancers(resp.object)[0]`.
ex_create_balancer_nowait(r) ==
    IF r.kind = "raise" THEN Raise(r.err)
    ELSE IF Len(r.object.list) = 0 THEN Raise(IndexError)
    ELSE Return(_to_balancers(r.object)[1])

CreateArgs(MemberLists) ==
    [name : Names, port : Ports, algorithm : Algorithms \cup {None}, members : MemberLists]
NowaitArgs == CreateArgs(SeqsUpTo(NewMembers, MaxMembers))
\* The members only reach the add request, which ExCreateBalancerNowait
\* covers with every member list.
CreateBalancerArgs == CreateArgs({<<>>})

ExCreateBalancerNowait ==
    /\ pc = "idle"
    /\ \E a \in NowaitArgs, r \in PollReplies :
          Finish("ex_create_balancer_nowait", a, <<AddRequest(a)>>, r,
                 ex_create_balancer_nowait(r))
    /\ UNCHANGED <<call, got, tables>>

\* ----------------------------------------------------------- create_balancer
\* `balancer.id is not None`
HasId_never(b) == FALSE
HasId(b) == b.id # None

\* `i.name == balancer.name and i.id is not None`
Matches_name(i, b) == i.name = b.name
Matches(i, b) == i.name = b.name /\ i.id # None

\* `while waittime < timeout`
LoopCond(w) == w < timeout

\* `for i in balancers: if ...: return i`, from position k on: the position
\* of the entry returned, 0 when the loop runs off the end.
RECURSIVE Scan(_, _, _)
Scan(bs, k, b) ==
    IF k > Len(bs) THEN 0
    ELSE IF Matches(bs[k], b) THEN k
    ELSE Scan(bs, k + 1, b)

\* A listing that holds an entry with the created balancer's name and an id.
Resolves(bs, b) == \E i \in 1..Len(bs) : bs[i].name = b.name /\ bs[i].id # None

\* From the call of ex_create_balancer_nowait to the test of balancer.id.
CreateBalancer ==
    /\ pc = "idle"
    /\ \E a \in CreateBalancerArgs, r \in PollReplies :
          LET created == ex_create_balancer_nowait(r) IN
            /\ op' = "create_balancer"
            /\ args' = a
            /\ log' = <<AddRequest(a)>>
            /\ IF created.kind = "raise"
               THEN /\ pc' = "done"
                    /\ reply' = r
                    /\ outcome' = created
                    /\ balancer' = balancer
               ELSE /\ balancer' = created.value
                    /\ IF HasId(created.value)
                       THEN pc' = "done" /\ reply' = r /\ outcome' = Return(created.value)
                       ELSE pc' = "polling" /\ reply' = NoReply /\ outcome' = Running
    /\ UNCHANGED <<waittime, nlist, nsleep, passed, got, tables>>

\* One turn of the loop: list_balancers, the scan, and, when the scan finds
\* nothing, waittime += interval and time.sleep(interval).  The locals
\* `balancers` and `i` are assigned anew in every turn before they are read
\* and are no part of the state between turns.
Poll ==
    /\ pc = "polling"
    /\ LoopCond(waittime)
    /\ \E r \in PollReplies :
          LET listed == list_balancers(r) IN
            /\ log' = Append(log, ListRequest)
            /\ nlist' = nlist + 1
            /\ IF listed.kind = "raise"
               THEN /\ pc' = "done"
                    /\ reply' = r
                    /\ outcome' = listed
                    /\ UNCHANGED <<waittime, nsleep, passed>>
               ELSE LET hit == Scan(listed.value, 1, balancer) IN
                    IF hit # 0
                       THEN /\ pc' = "done"
                            /\ reply' = r
                            /\ outcome' = Return(listed.value[hit])
                            /\ UNCHANGED <<waittime, nsleep, passed>>
                       ELSE /\ pc' = "polling"
                            /\ reply' = NoReply
                            /\ outcome' = Running
                            /\ waittime' = waittime + interval
                            /\ nsleep' = nsleep + 1
                            /\ passed' = (passed \/ Resolves(listed.value, balancer))
    /\ UNCHANGED <<op, args, balancer, got, tables>>

\* The loop ends without a return: `raise Exception('Failed to get id')`.
GiveUp ==
    /\ pc = "polling"
    /\ ~LoopCond(waittime)
    /\ pc' = "done"
    /\ outcome' = Raise(Error("Exception", <<"Failed to get id">>))
    /\ UNCHANGED <<op, args, log, reply, call, got, tables>>

\* ---------------------------------------------------------- destroy_balancer
DeleteRequest(b) ==
    Request("/api/grid/loadbalancer/delete", "POST", Entry("id", b.id))

\* `"Update request for LoadBalancer" in str(err)`
DeleteRefused_pending(err) == Contains(err.msg, "Update already pending")
DeleteRefused(err) == Contains(err.msg, "Update request for LoadBalancer")

\* The value of destroy_balancer when the delete request came back with r.
destroy_balancer(r) ==
    IF r.kind = "raise"
    THEN IF DeleteRefused(r.err)
         THEN Raise(Error("LibcloudLBImmutableError", <<"Cannot delete immutable object">>))
         ELSE Raise(r.err)
    ELSE Return(r.status = 200)

Targets == [id : TargetIds]

DestroyBalancer ==
    /\ pc = "idle"
    /\ \E b \in Targets, r \in DeleteReplies :
          Finish("destroy_balancer", [balancer |-> b], <<DeleteRequest(b)>>, r,
                 destroy_balancer(r))
    /\ UNCHANGED <<call, got, tables>>

\* -------------------------------------------------------------- get_balancer
\* **kwargs: any of ex_balancer_name and balancer_id.
Kwargs ==
    {[k \in K |-> IF k = "ex_balancer_name" THEN n ELSE i] :
        K \in SUBSET {"ex_balancer_name", "balancer_id"}, n \in Names, i \in TargetIds}

\* The try/except KeyError that fills params.
GetParams(kwargs) ==
    IF "ex_balancer_name" \in DOMAIN kwargs
    THEN Entry("name", kwargs["ex_balancer_name"])
    ELSE Entry("id", kwargs["balancer_id"])

GetRequest(params) == Request("/api/grid/loadbalancer/get", None, params)

\* The value of get_balancer when the get request came back with r.
get_balancer(r) ==
    IF r.kind = "raise" THEN Raise(r.err)
    ELSE IF Len(r.object.list) = 0 THEN Raise(IndexError)
    ELSE Return(_to_balancers(r.object)[1])

GetBalancer ==
    /\ pc = "idle"
    /\ \E kwargs \in Kwargs :
          IF DOMAIN kwargs = {}
          THEN \* kwargs['balancer_id'] raises inside the except clause
               Finish("get_balancer", kwargs, <<>>, NoReply,
                      Raise(Error("KeyError", <<"balancer_id">>)))
          ELSE \E r \in BalancerReplies :
                 Finish("get_balancer", kwargs, <<GetRequest(GetParams(kwargs))>>, r,
                        get_balancer(r))
    /\ UNCHANGED <<call, got, tables>>

\* ----------------------------------------------------- balancer_list_members
MembersRequest(b) == GetRequest(Entry("id", b.id))

\* The value of balancer_list_members when the get request came back with
\* g: `self._to_members(resp.object["list"][0]["realiplist"])`.
balancer_list_members(g) ==
    IF g.kind = "raise" THEN Raise(g.err)
    ELSE IF Len(g.object.list) = 0 THEN Raise(IndexError)
    ELSE Return(_to_members(g.object.list[1].realiplist))

BalancerListMembers ==
    /\ pc = "idle"
    /\ \E b \in Targets, g \in GetReplies :
          /\ Finish("balancer_list_members", [balancer |-> b], <<MembersRequest(b)>>, g,
                    balancer_list_members(g))
          /\ got' = g
    /\ UNCHANGED <<call, tables>>

\* ---------------------------------------------------------- _update_balancer
EditRequest(params) == Request("/api/grid/loadbalancer/edit", "POST", params)

\* `"Update already pending" in str(err)`
EditPending(err) == Contains(err.msg, "Update already pending")

\* The value of _update_balancer when the edit request came back with e.
\* The closing `raise LibcloudError(... str(err) ...)` stands after the
\* try statement and reads the name bound by `except Exception as err`.
\* An interpreter that keeps that name bound after the except clause
\* (Python 2) raises the LibcloudError; one that unbinds it at the end of
\* the clause (Python 3) raises UnboundLocalError at the read.
_update_balancer(e, unbinds) ==
    IF e.kind = "resp" THEN Return(e)
    ELSE IF EditPending(e.err)
    THEN Raise(Error("LibcloudLBImmutableError", <<"Balancer is immutable">>))
    ELSE IF unbinds
    THEN Raise(Error("UnboundLocalError", <<"cannot access local variable 'err'">>))
    ELSE Raise(Error("LibcloudError", <<"Exception: ">> \o e.err.msg))

\* ---------------------------------------------------- balancer_attach_member
\* `members.append(member)`
Appended_front(members, member) == <<member>> \o members
Appended(members, member) == Append(members, member)

\* `[ m for m in ... if m.ip == member.ip ]`
RECURSIVE SameIp(_, _)
SameIp(ms, member) ==
    IF Len(ms) = 0 THEN <<>>
    ELSE IF Head(ms).ip = member.ip
    THEN <<Head(ms)>> \o SameIp(Tail(ms), member)
    ELSE SameIp(Tail(ms), member)

\* `[...][0]`
First_last(found) == IF Len(found) = 0 THEN Raise(IndexError) ELSE Return(found[Len(found)])
First(found) == IF Len(found) = 0 THEN Raise(IndexError) ELSE Return(found[1])

EditParams(b, members) == Update(Entry("id", b.id), _members_to_params(members))

\* What follows `resp = self._update_balancer(params)`.
Attached(resp, member) ==
    IF Len(resp.object.list) = 0 THEN Raise(IndexError)
    ELSE First(SameIp(_to_members(resp.object.list[1].realiplist), member))

MemberArgs == [balancer : Targets, member : Members]

BalancerAttachMember ==
    /\ pc = "idle"
    /\ \E a \in MemberArgs, g \in GetReplies :
          LET members == balancer_list_members(g) IN
            /\ got' = g
            /\ IF members.kind = "raise"
               THEN Finish("balancer_attach_member", a, <<MembersRequest(a.balancer)>>, g,
                           members)
               ELSE \E e \in AttachReplies, unbinds \in BOOLEAN :
                      LET params == EditParams(a.balancer, Appended(members.value, a.member))
                          resp == _update_balancer(e, unbinds)
                      IN  Finish("balancer_attach_member", a,
                                 <<MembersRequest(a.balancer), EditRequest(params)>>, e,
                                 IF resp.kind = "raise" THEN resp
                                 ELSE Attached(resp.value, a.member))
    /\ UNCHANGED <<call, tables>>

\* ---------------------------------------------------- balancer_detach_member
\* `[n for n in members if n.id != member.id]`
RECURSIVE remaining_members_ip(_, _)
remaining_members_ip(members, member) ==
    IF Len(members) = 0 THEN <<>>
    ELSE IF Head(members).ip # member.ip
    THEN <<Head(members)>> \o remaining_members_ip(Tail(members), member)
    ELSE remaining_members_ip(Tail(members), member)
RECURSIVE remaining_members(_, _)
remaining_members(members, member) ==
    IF Len(members) = 0 THEN <<>>
    ELSE IF Head(members).id # member.id
    THEN <<Head(members)>> \o remaining_members(Tail(members), member)
    ELSE remaining_members(Tail(members), member)

BalancerDetachMember ==
    /\ pc = "idle"
    /\ \E a \in MemberArgs, g \in GetReplies :
          LET members == balancer_list_members(g) IN
            /\ got' = g
            /\ IF members.kind = "raise"
               THEN Finish("balancer_detach_member", a, <<MembersRequest(a.balancer)>>, g,
                           members)
               ELSE \E e \in DetachReplies, unbinds \in BOOLEAN :
                      LET params == EditParams(a.balancer,
                                               remaining_members(members.value, a.member))
                          resp == _update_balancer(e, unbinds)
                      IN  Finish("balancer_detach_member", a,
                                 <<MembersRequest(a.balancer), EditRequest(params)>>, e,
                                 IF resp.kind = "raise" THEN resp
                                 ELSE Return(resp.value.status = 200))
    /\ UNCHANGED <<call, tables>>

\* The caller takes the result; the driver keeps nothing of the call.
Done ==
    /\ pc = "done"
    /\ pc' = "idle"
    /\ op' = "none"
    /\ args' = <<>>
    /\ log' = <<>>
    /\ reply' = NoReply
    /\ outcome' = Running
    /\ balancer' = NoBalancer
    /\ waittime' = 0
    /\ nlist' = 0
    /\ nsleep' = 0
    /\ passed' = FALSE
    /\ got' = NoReply
    /\ UNCHANGED tables

Next ==
    \/ ListBalancers
    \/ ExCreateBalancerNowait
    \/ CreateBalancer
    \/ Poll
    \/ GiveUp
    \/ DestroyBalancer
    \/ GetBalancer
    \/ BalancerListMembers
    \/ BalancerAttachMember
    \/ BalancerDetachMember
    \/ Done

Spec == Init /\ [][Next]_vars

\* =================================================================== claims
Ended(name) == op = name /\ pc = "done"
\* create_balancer got a balancer out of the add response.
Created == op = "create_balancer" /\ balancer # NoBalancer
FailedToGetId == Error("Exception", <<"Failed to get id">>)
TypeKey == <<"loadbalancer.type">>

\* C1: when the balancer parsed from the add response has an identifier,
\* create_balancer has ended by returning that balancer, having issued the
\* add request only: no list_balancers call and no sleep.
C1_ImmediateReturn ==
    (Created /\ balancer.id # None) =>
        /\ pc = "done"
        /\ outcome.kind = "return"
        /\ outcome.value = balancer
        /\ nlist = 0
        /\ nsleep = 0
        /\ waittime = 0
        /\ Len(log) = 1
        /\ log[1].path = "/api/grid/loadbalancer/add"

C1_Witness ==
    /\ Ended("create_balancer")
    /\ balancer.id = "lb7"
    /\ outcome.kind = "return"
    /\ Len(reply.object.list) > 1

\* A listing (of vendor elements) that holds an entry with the created
\* balancer's name and an identifier.
HoldsNamedId(list) ==
    \E i \in 1..Len(list) : list[i].name = balancer.name /\ list[i].id # None

\* C2: when the add response carried no identifier, every list_balancers
\* call came back with a listing and no listing held an entry with the
\* balancer's name and an identifier, create_balancer ends by raising
\* Exception('Failed to get id') after exactly 40 list_balancers calls; it
\* never makes a 41st.
C2_PollsFortyTimes ==
    /\ nlist <= 40
    /\ (/\ Created
        /\ balancer.id = None
        /\ pc = "done"
        /\ reply.kind # "raise"
        /\ ~passed
        /\ ~(reply.kind = "resp" /\ HoldsNamedId(reply.object.list)))
       => /\ outcome.kind = "raise"
          /\ outcome.value = FailedToGetId
          /\ nlist = 40
          /\ Len(log) = 41

C2_Witness ==
    /\ Ended("create_balancer")
    /\ outcome.kind = "raise"
    /\ outcome.value = FailedToGetId
    /\ nlist = 40
    /\ ~passed

\* C3: destroy_balancer raises LibcloudLBImmutableError when the delete
\* request raises an error whose text contains "Update request for
\* LoadBalancer", raises the very error of the request when it raises any
\* other, and otherwise returns whether the status is 200.
C3_Destroy ==
    Ended("destroy_balancer") =>
        /\ (reply.kind = "raise" /\ Contains(reply.err.msg, "Update request for LoadBalancer"))
             => (outcome.kind = "raise" /\ outcome.value.type = "LibcloudLBImmutableError")
        /\ (reply.kind = "raise" /\ ~Contains(reply.err.msg, "Update request for LoadBalancer"))
             => (outcome.kind = "raise" /\ outcome.value = reply.err)
        /\ reply.kind = "resp"
             => (outcome.kind = "return" /\ (outcome.value <=> reply.status = 200))

C3_Witness ==
    /\ Ended("destroy_balancer")
    /\ reply.kind = "raise"
    /\ Len(reply.err.msg) > 1
    /\ outcome.kind = "raise"
    /\ outcome.value.type = "LibcloudLBImmutableError"

\* The call issued its edit request.
Edited(name) == Ended(name) /\ Len(log) = 2

\* C4: when the edit request of an attach or a detach raises, the call
\* raises: LibcloudLBImmutableError when the text contains "Update already
\* pending", and otherwise a LibcloudError whose message carries the text
\* of the error raised.
C4_EditFailure ==
    ((Edited("balancer_attach_member") \/ Edited("balancer_detach_member"))
        /\ reply.kind = "raise") =>
        /\ outcome.kind = "raise"
        /\ IF Contains(reply.err.msg, "Update already pending")
           THEN outcome.value.type = "LibcloudLBImmutableError"
           ELSE /\ outcome.value.type = "LibcloudError"
                /\ outcome.value.msg = <<"Exception: ">> \o reply.err.msg

\* C5: the 'loadbalancer.type' parameter of the add request is a vendor
\* token, a key of the forward table: the one of the algorithm asked for, or
\* the one of the default algorithm when none is asked for.
C5_TypeIsVendorToken ==
    ((op = "ex_create_balancer_nowait" \/ op = "create_balancer") /\ Len(log) > 0) =>
        LET sent == log[1].params[TypeKey] IN
          /\ sent \in DOMAIN value_to_algorithm
          /\ value_to_algorithm[sent] =
                IF args.algorithm = None THEN DEFAULT_ALGORITHM ELSE args.algorithm

\* The member list (of vendor elements) of a get or edit response.
RealIpList(r) == r.object.list[1].realiplist
\* The positions of a member list whose IP is that of the member passed.
SharesIp(list) == {i \in 1..Len(list) : list[i].ip.ip = args.member.ip}
LeastOf(S) == CHOOSE i \in S : \A j \in S : i <= j

\* C6: after an edit request that succeeded, balancer_attach_member returns
\* the first member of the edit response whose IP is that of the member
\* attached, and raises IndexError when the response holds none.
C6_AttachReturnsFirstByIp ==
    (Edited("balancer_attach_member") /\ reply.kind = "resp" /\ Len(reply.object.list) > 0) =>
        LET list == RealIpList(reply) IN
          IF SharesIp(list) = {}
          THEN outcome.kind = "raise" /\ outcome.value.type = "IndexError"
          ELSE LET el == list[LeastOf(SharesIp(list))] IN
                 /\ outcome.kind = "return"
                 /\ outcome.value = [id |-> el.ip.id, ip |-> el.ip.ip, port |-> el.port]

C6_Witness ==
    /\ Edited("balancer_attach_member")
    /\ reply.kind = "resp"
    /\ Len(reply.object.list) > 0
    /\ \E i, j \in SharesIp(RealIpList(reply)) :
          /\ i < j
          /\ RealIpList(reply)[i].ip.id # RealIpList(reply)[j].ip.id
    /\ outcome.kind = "return"

\* The parameters that carry `list` (of vendor elements) for balancer b.
CarriesList(params, list) ==
    /\ DOMAIN params =
          {<<"id">>} \cup {<<"realiplist", i, f>> : i \in 0..(Len(list) - 1), f \in {"ip", "port"}}
    /\ \A i \in 1..Len(list) :
          /\ params[<<"realiplist", i - 1, "ip">>] = list[i].ip.ip
          /\ params[<<"realiplist", i - 1, "port">>] = list[i].port

NotDetached(el) == el.ip.id # args.member.id

\* C7: the member list in the edit request of balancer_detach_member is the
\* list just read with the members whose identifier is the detached
\* member's left out, the others in their order with their IP and port,
\* under the indices 0 .. n-1; a list that does not hold the identifier is
\* submitted as read.
C7_DetachResubmitsOthers ==
    Edited("balancer_detach_member") =>
        /\ CarriesList(log[2].params, SelectSeq(RealIpList(got), NotDetached))
        /\ (\A i \in 1..Len(RealIpList(got)) : NotDetached(RealIpList(got)[i]))
             => CarriesList(log[2].params, RealIpList(got))

C7_Witness ==
    /\ Edited("balancer_detach_member")
    /\ Len(RealIpList(got)) = 2
    /\ ~NotDetached(RealIpList(got)[1])
    /\ NotDetached(RealIpList(got)[2])
    /\ RealIpList(got)[2].ip.ip = args.member.ip
    /\ <<"realiplist", 0, "ip">> \in DOMAIN log[2].params

\* C8: the reverse table is the inverse of the forward table, no two tokens
\* of the forward table stand for the same algorithm, and the tables are the
\* ones of the class body whatever the driver has done.
C8_TablesInverse ==
    /\ \A t \in DOMAIN value_to_algorithm :
          /\ value_to_algorithm[t] \in DOMAIN algorithm_to_value
          /\ algorithm_to_value[value_to_algorithm[t]] = t
    /\ \A a \in DOMAIN algorithm_to_value :
          /\ algorithm_to_value[a] \in DOMAIN value_to_algorithm
          /\ value_to_algorithm[algorithm_to_value[a]] = a
    /\ \A t, u \in DOMAIN value_to_algorithm :
          value_to_algorithm[t] = value_to_algorithm[u] => t = u
    /\ DOMAIN value_to_algorithm = {"round balancer", "least connection"}
    /\ DOMAIN algorithm_to_value = {"ROUND_ROBIN", "LEAST_CONNECTIONS"}

C8_Witness ==
    /\ Ended("ex_create_balancer_nowait")
    /\ args.algorithm = "LEAST_CONNECTIONS"
    /\ log[1].params[TypeKey] = "least connection"
    /\ value_to_algorithm["least connection"] = "LEAST_CONNECTIONS"

\* The positions of a listing that hold the created balancer's name and an id.
NamedIds(list) == {i \in 1..Len(list) : list[i].name = balancer.name /\ list[i].id # None}

\* C9: a balancer create_balancer returns has an identifier; one returned
\* after polling is the first entry with the created balancer's name and an
\* identifier of the listing last read, no earlier listing held such an
\* entry, and no sleep or list_balancers call follows that listing.
C9_PollingResolution ==
    (Ended("create_balancer") /\ outcome.kind = "return") =>
        /\ outcome.value.id # None
        /\ nlist > 0 =>
             /\ balancer.id = None
             /\ ~passed
             /\ reply.kind = "resp"
             /\ NamedIds(reply.object.list) # {}
             /\ outcome.value = _to_balancer(reply.object.list[LeastOf(NamedIds(reply.object.list))])
             /\ nsleep = nlist - 1
             /\ waittime = interval * nsleep
             /\ Len(log) = nlist + 1
             /\ log[Len(log)].path = "/api/grid/loadbalancer/list"

C9_Witness ==
    /\ Ended("create_balancer")
    /\ outcome.kind = "return"
    /\ nlist = 3
    /\ \E i, j \in NamedIds(reply.object.list) :
          /\ i < j
          /\ reply.object.list[i].state.name # reply.object.list[j].state.name
    /\ balancer.name # args.name

\* C10: balancer_attach_member issues a get request for the balancer's
\* identifier and then, when the member list could be read, one edit
\* request for the same identifier, which carries the list read, in its
\* order, followed by the new member.
C10_AttachAppends ==
    Ended("balancer_attach_member") =>
        /\ Len(log) \in {1, 2}
        /\ log[1] = [path |-> "/api/grid/loadbalancer/get", method |-> None,
                     params |-> [k \in {<<"id">>} |-> args.balancer.id]]
        /\ Len(log) = 2 <=> (got.kind = "resp" /\ Len(got.object.list) > 0)
        /\ Len(log) = 2 =>
             /\ log[2].path = "/api/grid/loadbalancer/edit"
             /\ log[2].method = "POST"
             /\ log[2].params[<<"id">>] = args.balancer.id
             /\ CarriesList(log[2].params,
                            Append(RealIpList(got),
                                   [ip |-> [id |-> args.member.id, ip |-> args.member.ip],
                                    port |-> args.member.port]))

C10_Witness ==
    /\ Edited("balancer_attach_member")
    /\ Len(RealIpList(got)) = 2
    /\ RealIpList(got)[1] # RealIpList(got)[2]
    /\ RealIpList(got)[1].ip.ip # args.member.ip
    /\ outcome.kind = "return"
====
